---- MODULE Spec2Model ----
(***************************************************************************)
(* ffxl (Feature Flags Extra Light): the config store (config.ts), the     *)
(* evaluator (evaluator.ts) and the loader/validator (loader.ts), over a   *)
(* model of JavaScript values and of JSON text.                            *)
(***************************************************************************)
EXTENDS Integers, Sequences, FiniteSets, TLC

(***************************************************************************)
(* JavaScript values.  Every value is a record tagged by t.  An object     *)
(* keeps its own keys in property order (keys[i] holds vals[i]).           *)
(***************************************************************************)
\* Bind(e, F) is F(e) with e evaluated once: r \in {e} binds r to the value of e.
Bind(e, F(_)) == CHOOSE out \in {F(r) : r \in {e}} : TRUE

Undef == [t |-> "undefined"]
Null == [t |-> "null"]
NaN == [t |-> "NaN"]
Fn == [t |-> "function"]
Bool(b) == [t |-> "boolean", b |-> b]
Num(n) == [t |-> "number", n |-> n]
Str(s) == [t |-> "string", s |-> s]
Arr(items) == [t |-> "array", items |-> items]
Obj(keys, vals) == [t |-> "object", keys |-> keys, vals |-> vals]
EmptyObj == Obj(<<>>, <<>>)

\* The property names every object inherits from Object.prototype (a method
\* and the __proto__ accessor), and the names that are array indices.
ProtoNames == {"toString", "__proto__"}
\* What reading the inherited __proto__ gives: the prototype, an object
\* without own enumerable keys.
ObjectPrototype == EmptyObj
IndexNames == {"0", "1"}
IndexOf(k) == IF k = "0" THEN 0 ELSE 1
IndexName(i) == IF i = 0 THEN "0" ELSE "1"

\* Length of the strings of the model (JavaScript's s.length).
StrLen(s) == IF s = "" THEN 0 ELSE 2

\* typeof v === 'object' (true of null, arrays and objects).
TypeofObject(v) == v.t \in {"null", "array", "object"}

\* ToBoolean: undefined, null, false, 0, NaN and "" are falsy.
Truthy(v) ==
  CASE v.t \in {"undefined", "null", "NaN"} -> FALSE
    [] v.t = "boolean" -> v.b
    [] v.t = "number" -> v.n # 0
    [] v.t = "string" -> v.s # ""
    [] OTHER -> TRUE

KeyPos(o, k) ==
  IF \E i \in 1..Len(o.keys) : o.keys[i] = k
  THEN CHOOSE i \in 1..Len(o.keys) : o.keys[i] = k
  ELSE 0

HasOwn(v, k) ==
  CASE v.t = "object" -> KeyPos(v, k) # 0
    [] v.t = "array" -> k = "length" \/ (k \in IndexNames /\ IndexOf(k) < Len(v.items))
    [] v.t = "string" -> k = "length" \/ (k \in IndexNames /\ IndexOf(k) < StrLen(v.s))
    [] OTHER -> FALSE

\* v[k]: throws TypeError on undefined and null, otherwise the own property,
\* the inherited one, or undefined.  A character of a string is modelled by
\* the string "c".
Get(v, k) ==
  CASE v.t \in {"undefined", "null"} -> [thrown |-> TRUE, val |-> Undef]
    [] v.t = "object" /\ KeyPos(v, k) # 0 -> [thrown |-> FALSE, val |-> v.vals[KeyPos(v, k)]]
    [] v.t = "array" /\ k = "length" -> [thrown |-> FALSE, val |-> Num(Len(v.items))]
    [] v.t = "array" /\ HasOwn(v, k) -> [thrown |-> FALSE, val |-> v.items[IndexOf(k) + 1]]
    [] v.t = "string" /\ k = "length" -> [thrown |-> FALSE, val |-> Num(StrLen(v.s))]
    [] v.t = "string" /\ HasOwn(v, k) -> [thrown |-> FALSE, val |-> Str("c")]
    [] k = "__proto__" -> [thrown |-> FALSE, val |-> ObjectPrototype]
    [] k \in ProtoNames -> [thrown |-> FALSE, val |-> Fn]
    [] OTHER -> [thrown |-> FALSE, val |-> Undef]

\* k in v: throws TypeError unless v is an object (array, function).
In(k, v) ==
  IF v.t \in {"object", "array", "function"}
  THEN [thrown |-> FALSE, val |-> HasOwn(v, k) \/ k \in ProtoNames]
  ELSE [thrown |-> TRUE, val |-> FALSE]

\* Object.keys(v): throws on undefined and null; own enumerable string keys.
RECURSIVE IndexKeys(_)
IndexKeys(n) == IF n = 0 THEN <<>> ELSE Append(IndexKeys(n - 1), IndexName(n - 1))

ObjectKeys(v) ==
  CASE v.t \in {"undefined", "null"} -> [thrown |-> TRUE, val |-> <<>>]
    [] v.t = "object" -> [thrown |-> FALSE, val |-> v.keys]
    [] v.t = "array" -> [thrown |-> FALSE, val |-> IndexKeys(Len(v.items))]
    [] v.t = "string" -> [thrown |-> FALSE, val |-> IndexKeys(StrLen(v.s))]
    [] OTHER -> [thrown |-> FALSE, val |-> <<>>]

\* Defining the own property k of o with value v (as JSON.parse and
\* yaml.load build objects): an existing key keeps its place, a new index
\* key goes before the string keys in ascending order, a new string key
\* goes last.
InsertAt(s, i, x) == SubSeq(s, 1, i - 1) \o <<x>> \o SubSeq(s, i, Len(s))

ObjPut(o, k, v) ==
  IF KeyPos(o, k) # 0
  THEN Obj(o.keys, [o.vals EXCEPT ![KeyPos(o, k)] = v])
  ELSE IF k \in IndexNames
       THEN LET before == {i \in 1..Len(o.keys) :
                             o.keys[i] \in IndexNames /\ IndexOf(o.keys[i]) < IndexOf(k)}
                at == Cardinality(before) + 1
            IN Obj(InsertAt(o.keys, at, k), InsertAt(o.vals, at, v))
       ELSE Obj(Append(o.keys, k), Append(o.vals, v))

\* o[k] = v for a boolean v: an assignment to __proto__ on an object
\* without that own key runs the inherited setter, which ignores a value
\* that is neither an object nor null, so no key is created.
Assign(o, k, v) ==
  IF k = "__proto__" /\ KeyPos(o, k) = 0 THEN o ELSE ObjPut(o, k, v)

(***************************************************************************)
(* JSON text, as the sequence of its tokens.  The empty sequence is the    *)
(* empty string; any other text that is not JSON holds a "bad" token or is *)
(* an ill-formed sequence.                                                 *)
(***************************************************************************)
Tok(k, v, n) == [k |-> k, v |-> v, n |-> n]
Punct(c) == Tok("punct", c, 0)
Lit(w) == Tok("lit", w, 0)
StrTok(s) == Tok("str", s, 0)
NumTok(n) == Tok("num", "", n)
BadTok == Tok("bad", "", 0)

ParseFail == [ok |-> FALSE, val |-> Undef, rest |-> <<>>]
ParseOk(v, rest) == [ok |-> TRUE, val |-> v, rest |-> rest]

RECURSIVE ParseValue(_), ParseElements(_, _), ParseMembers(_, _)

ParseValue(ts) ==
  IF ts = <<>> THEN ParseFail
  ELSE LET h == Head(ts) IN
    CASE h.k = "lit" /\ h.v = "null" -> ParseOk(Null, Tail(ts))
      [] h.k = "lit" /\ h.v = "true" -> ParseOk(Bool(TRUE), Tail(ts))
      [] h.k = "lit" /\ h.v = "false" -> ParseOk(Bool(FALSE), Tail(ts))
      [] h.k = "num" -> ParseOk(Num(h.n), Tail(ts))
      [] h.k = "str" -> ParseOk(Str(h.v), Tail(ts))
      [] h = Punct("[") ->
           IF Len(ts) >= 2 /\ ts[2] = Punct("]")
           THEN ParseOk(Arr(<<>>), SubSeq(ts, 3, Len(ts)))
           ELSE ParseElements(Tail(ts), <<>>)
      [] h = Punct("{") ->
           IF Len(ts) >= 2 /\ ts[2] = Punct("}")
           THEN ParseOk(EmptyObj, SubSeq(ts, 3, Len(ts)))
           ELSE ParseMembers(Tail(ts), EmptyObj)
      [] OTHER -> ParseFail

\* value ("," value)* "]"
ParseElements(ts, acc) ==
  Bind(ParseValue(ts), LAMBDA r :
    IF ~r.ok \/ r.rest = <<>> THEN ParseFail
    ELSE IF Head(r.rest) = Punct(",")
         THEN ParseElements(Tail(r.rest), Append(acc, r.val))
         ELSE IF Head(r.rest) = Punct("]")
              THEN ParseOk(Arr(Append(acc, r.val)), Tail(r.rest))
              ELSE ParseFail)

\* string ":" value ("," string ":" value)* "}"; a repeated key keeps its
\* first place and its last value.
ParseMembers(ts, acc) ==
  IF Len(ts) < 3 \/ ts[1].k # "str" \/ ts[2] # Punct(":") THEN ParseFail
  ELSE Bind(ParseValue(SubSeq(ts, 3, Len(ts))), LAMBDA r :
    IF ~r.ok \/ r.rest = <<>> THEN ParseFail
    ELSE Bind(ObjPut(acc, ts[1].v, r.val), LAMBDA o :
      IF Head(r.rest) = Punct(",")
      THEN ParseMembers(Tail(r.rest), o)
      ELSE IF Head(r.rest) = Punct("}")
           THEN ParseOk(o, Tail(r.rest))
           ELSE ParseFail))

\* JSON.parse(text): the value, or thrown (SyntaxError).
JSONparse(ts) ==
  Bind(ParseValue(ts), LAMBDA r :
    IF r.ok /\ r.rest = <<>>
    THEN [thrown |-> FALSE, val |-> r.val]
    ELSE [thrown |-> TRUE, val |-> Undef])

\* JSON.stringify(v) of a value that is not undefined or a function: NaN
\* becomes null, undefined and functions become null inside an array and are
\* left out of an object.
RECURSIVE Serialize(_), SerializeItems(_, _), SerializeMembers(_, _, _)

Serialize(v) ==
  CASE v.t = "boolean" -> <<Lit(IF v.b THEN "true" ELSE "false")>>
    [] v.t = "number" -> <<NumTok(v.n)>>
    [] v.t = "string" -> <<StrTok(v.s)>>
    [] v.t = "array" -> <<Punct("[")>> \o SerializeItems(v.items, 1) \o <<Punct("]")>>
    [] v.t = "object" -> <<Punct("{")>> \o SerializeMembers(v, 1, TRUE) \o <<Punct("}")>>
    [] OTHER -> <<Lit("null")>>

SerializeItems(items, i) ==
  IF i > Len(items) THEN <<>>
  ELSE (IF i > 1 THEN <<Punct(",")>> ELSE <<>>)
       \o Serialize(items[i]) \o SerializeItems(items, i + 1)

SerializeMembers(o, i, first) ==
  IF i > Len(o.keys) THEN <<>>
  ELSE IF o.vals[i].t \in {"undefined", "function"}
       THEN SerializeMembers(o, i + 1, first)
       ELSE (IF first THEN <<>> ELSE <<Punct(",")>>)
            \o <<StrTok(o.keys[i]), Punct(":")>> \o Serialize(o.vals[i])
            \o SerializeMembers(o, i + 1, FALSE)

JSONstringify(v) == Serialize(v)

(***************************************************************************)
(* The process: its host, its two transport variables, the module-level   *)
(* cache slot of config.ts, the last call made on the public surface with  *)
(* what it returned and how often it consulted the transport variables,    *)
(* the Configuration the loader produced last, and the callers that are    *)
(* inside getConfig, each with its position and its local values.          *)
(***************************************************************************)
VARIABLES host, env, cachedConfig, call, result, reads, loaded, callers

vars == <<host, env, cachedConfig, call, result, reads, loaded, callers>>

\* The hosts: which of window, document and process the global object has.
\* In each of them the Logger's channel (console, or process.stderr) exists.
NodeHost == [window |-> FALSE, document |-> FALSE, process |-> TRUE]
BrowserHost == [window |-> TRUE, document |-> TRUE, process |-> FALSE]
BundledBrowserHost == [window |-> TRUE, document |-> TRUE, process |-> TRUE]

\* An environment variable: unset (undefined) or set to a text.
Unset == [set |-> FALSE, text |-> <<>>]
SetTo(text) == [set |-> TRUE, text |-> text]

\* a || b on string-or-undefined operands: undefined and "" are falsy.
FalsyString(a) == ~a.set \/ a.text = <<>>
OrElse(a, b) == IF FalsyString(a) THEN b ELSE a

EmptyConfig == Obj(<<"features">>, <<EmptyObj>>)

Return(c, v, n) == [cache |-> c, thrown |-> FALSE, val |-> v, reads |-> n]
Throw(c, n) == [cache |-> c, thrown |-> TRUE, val |-> Undef, reads |-> n]

\* (mutant) FFXL_CONFIG is consulted first.
ConfigString_FfxlFirst ==
  IF host.process
  THEN OrElse(env.FFXL_CONFIG, env.FEATURE_FLAGS_CONFIG)
  ELSE Unset

\* process.env.FEATURE_FLAGS_CONFIG || process.env.FFXL_CONFIG, or undefined
\* where there is no process.
ConfigString ==
  IF host.process
  THEN OrElse(env.FEATURE_FLAGS_CONFIG, env.FFXL_CONFIG)
  ELSE Unset

\* (mutant) no try/catch: a SyntaxError of JSON.parse reaches the caller.
getConfig_NoCatch(c) ==
  IF Truthy(c) THEN Return(c, c, 0)
  ELSE IF FalsyString(ConfigString) THEN Return(EmptyConfig, EmptyConfig, 1)
  ELSE Bind(JSONparse(ConfigString.text), LAMBDA parsed :
         IF parsed.thrown
         THEN Throw(c, 1)
         ELSE Return(parsed.val, parsed.val, 1))

\* (mutant) a cached empty configuration is taken for a failed load and the
\* transport variables are read again.
getConfig_RetryEmpty(c) ==
  IF Truthy(c) /\ c # EmptyConfig THEN Return(c, c, 0)
  ELSE IF FalsyString(ConfigString) THEN Return(EmptyConfig, EmptyConfig, 1)
  ELSE Bind(JSONparse(ConfigString.text), LAMBDA parsed :
         IF parsed.thrown
         THEN Return(EmptyConfig, EmptyConfig, 1)
         ELSE Return(parsed.val, parsed.val, 1))

\* getConfig() on the cache slot c: the new slot, the value returned, and
\* the number of times the transport variables were consulted.
getConfig(c) ==
  IF Truthy(c) THEN Return(c, c, 0)
  ELSE IF FalsyString(ConfigString) THEN Return(EmptyConfig, EmptyConfig, 1)
  ELSE Bind(JSONparse(ConfigString.text), LAMBDA parsed :
         IF parsed.thrown
         THEN Return(EmptyConfig, EmptyConfig, 1)
         ELSE Return(parsed.val, parsed.val, 1))

\* (mutant) clearCache leaves a populated slot as it is.
clearCache_Keeps(c) == Return(c, Undef, 0)

\* clearCache()
clearCache(c) == Return(Null, Undef, 0)

(***************************************************************************)
(* evaluator.ts                                                            *)
(***************************************************************************)
\* (mutant) a user without userId is matched by its email.
UserIdOf_OrEmail(user) ==
  IF user.t \in {"undefined", "null"} THEN Undef
  ELSE IF Truthy(Get(user, "userId").val) THEN Get(user, "userId").val
  ELSE Get(user, "email").val

\* user?.userId
UserIdOf(user) == IF user.t \in {"undefined", "null"} THEN Undef ELSE Get(user, "userId").val

\* v > 0 for the values a length property holds in this model.
GreaterThanZero(v) ==
  CASE v.t = "number" -> v.n > 0
    [] v.t = "boolean" -> v.b
    [] OTHER -> FALSE

\* s.includes(x) on strings of the model, none a proper substring of another
\* except the empty string.
StrIncludes(s, x) == x = "" \/ x = s

\* list.includes(x): Array.prototype.includes, String.prototype.includes, or
\* a TypeError where the value has no such method.
Includes(list, x) ==
  CASE list.t = "array" ->
         [thrown |-> FALSE, val |-> \E i \in 1..Len(list.items) : list.items[i] = x]
    [] list.t = "string" /\ x.t = "string" ->
         [thrown |-> FALSE, val |-> StrIncludes(list.s, x.s)]
    [] OTHER -> [thrown |-> TRUE, val |-> FALSE]

\* (mutant) a user list restricts the feature as soon as it is present, even
\* when it is empty.
EvaluateRule_EmptyListRestricts(config, featureName, user) ==
  Bind(Get(config, "features"), LAMBDA features :
  IF features.thrown THEN [thrown |-> TRUE, val |-> FALSE]
  ELSE Bind(Get(features.val, featureName), LAMBDA feature :
  IF feature.thrown THEN [thrown |-> TRUE, val |-> FALSE]
  ELSE IF ~Truthy(feature.val) THEN [thrown |-> FALSE, val |-> FALSE]
  ELSE Bind(Get(feature.val, "onlyForUserIds").val, LAMBDA ids :
  IF Truthy(ids)
  THEN IF ~Truthy(UserIdOf(user))
       THEN [thrown |-> FALSE, val |-> FALSE]
       ELSE Includes(ids, UserIdOf(user))
  ELSE Bind(In("enabled", feature.val), LAMBDA has :
       IF has.thrown THEN [thrown |-> TRUE, val |-> FALSE]
       ELSE IF has.val
            THEN [thrown |-> FALSE, val |-> Get(feature.val, "enabled").val = Bool(TRUE)]
            ELSE [thrown |-> FALSE, val |-> FALSE]))))

\* (mutant) a feature that is not found counts as enabled.
EvaluateRule_UnknownEnabled(config, featureName, user) ==
  Bind(Get(config, "features"), LAMBDA features :
  IF features.thrown THEN [thrown |-> TRUE, val |-> FALSE]
  ELSE Bind(Get(features.val, featureName), LAMBDA feature :
  IF feature.thrown THEN [thrown |-> TRUE, val |-> FALSE]
  ELSE IF ~Truthy(feature.val) THEN [thrown |-> FALSE, val |-> TRUE]
  ELSE Bind(Get(feature.val, "onlyForUserIds").val, LAMBDA ids :
  IF Truthy(ids) /\ GreaterThanZero(Get(ids, "length").val)
  THEN IF ~Truthy(UserIdOf(user))
       THEN [thrown |-> FALSE, val |-> FALSE]
       ELSE Includes(ids, UserIdOf(user))
  ELSE Bind(In("enabled", feature.val), LAMBDA has :
       IF has.thrown THEN [thrown |-> TRUE, val |-> FALSE]
       ELSE IF has.val
            THEN [thrown |-> FALSE, val |-> Get(feature.val, "enabled").val = Bool(TRUE)]
            ELSE [thrown |-> FALSE, val |-> FALSE]))))

\* The try block of isFeatureEnabled on the configuration getConfig returned.
EvaluateRule(config, featureName, user) ==
  Bind(Get(config, "features"), LAMBDA features :
  IF features.thrown THEN [thrown |-> TRUE, val |-> FALSE]
  ELSE Bind(Get(features.val, featureName), LAMBDA feature :
  IF feature.thrown THEN [thrown |-> TRUE, val |-> FALSE]
  ELSE IF ~Truthy(feature.val) THEN [thrown |-> FALSE, val |-> FALSE]
  ELSE Bind(Get(feature.val, "onlyForUserIds").val, LAMBDA ids :
  IF Truthy(ids) /\ GreaterThanZero(Get(ids, "length").val)
  THEN IF ~Truthy(UserIdOf(user))
       THEN [thrown |-> FALSE, val |-> FALSE]
       ELSE Includes(ids, UserIdOf(user))
  ELSE Bind(In("enabled", feature.val), LAMBDA has :
       IF has.thrown THEN [thrown |-> TRUE, val |-> FALSE]
       ELSE IF has.val
            THEN [thrown |-> FALSE, val |-> Get(feature.val, "enabled").val = Bool(TRUE)]
            ELSE [thrown |-> FALSE, val |-> FALSE]))))

\* (mutant) no try/catch: an exception of the evaluation reaches the caller.
isFeatureEnabled_NoCatch(c, featureName, user) ==
  Bind(getConfig(c), LAMBDA g :
  Bind(EvaluateRule(g.val, featureName, user), LAMBDA r :
    IF g.thrown \/ r.thrown
    THEN Throw(g.cache, g.reads)
    ELSE Return(g.cache, Bool(r.val), g.reads)))

\* isFeatureEnabled(featureName, user): any exception of the try block is
\* caught and answered with false.
isFeatureEnabled(c, featureName, user) ==
  Bind(getConfig(c), LAMBDA g :
  Bind(EvaluateRule(g.val, featureName, user), LAMBDA r :
    IF g.thrown \/ r.thrown
    THEN Return(g.cache, Bool(FALSE), g.reads)
    ELSE Return(g.cache, Bool(r.val), g.reads)))

\* featureNames.some(name => isFeatureEnabled(name, user)), from index i.
RECURSIVE SomeFrom(_, _, _, _, _)
SomeFrom(c, featureNames, user, i, n) ==
  IF i > Len(featureNames) THEN Return(c, Bool(FALSE), n)
  ELSE Bind(isFeatureEnabled(c, featureNames[i], user), LAMBDA r :
       IF r.thrown THEN Throw(r.cache, n + r.reads)
       ELSE IF Truthy(r.val) THEN Return(r.cache, Bool(TRUE), n + r.reads)
       ELSE SomeFrom(r.cache, featureNames, user, i + 1, n + r.reads))

\* featureNames.every(name => isFeatureEnabled(name, user)), from index i.
RECURSIVE EveryFrom(_, _, _, _, _)
EveryFrom(c, featureNames, user, i, n) ==
  IF i > Len(featureNames) THEN Return(c, Bool(TRUE), n)
  ELSE Bind(isFeatureEnabled(c, featureNames[i], user), LAMBDA r :
       IF r.thrown THEN Throw(r.cache, n + r.reads)
       ELSE IF ~Truthy(r.val) THEN Return(r.cache, Bool(FALSE), n + r.reads)
       ELSE EveryFrom(r.cache, featureNames, user, i + 1, n + r.reads))

\* (mutant) the callback drops the user: name => isFeatureEnabled(name)
isAnyFeatureEnabled_NoUser(c, featureNames, user) == SomeFrom(c, featureNames, Undef, 1, 0)

isAnyFeatureEnabled(c, featureNames, user) == SomeFrom(c, featureNames, user, 1, 0)

areAllFeaturesEnabled(c, featureNames, user) == EveryFrom(c, featureNames, user, 1, 0)

\* keys.filter(name => isFeatureEnabled(name, user)), from index i.
RECURSIVE FilterFrom(_, _, _, _, _, _)
FilterFrom(c, keys, user, i, acc, n) ==
  IF i > Len(keys) THEN Return(c, Arr(acc), n)
  ELSE Bind(isFeatureEnabled(c, keys[i], user), LAMBDA r :
       IF r.thrown THEN Throw(r.cache, n + r.reads)
       ELSE FilterFrom(r.cache, keys, user, i + 1,
                       IF Truthy(r.val) THEN Append(acc, Str(keys[i])) ELSE acc,
                       n + r.reads))

\* (mutant) the filter evaluates every name for no user.
getEnabledFeatures_NoUser(c, user) ==
  Bind(getConfig(c), LAMBDA g :
  Bind(Get(g.val, "features"), LAMBDA features :
  Bind(ObjectKeys(features.val), LAMBDA keys :
    IF g.thrown \/ features.thrown \/ keys.thrown
    THEN Return(g.cache, Arr(<<>>), g.reads)
    ELSE Bind(FilterFrom(g.cache, keys.val, Undef, 1, <<>>, g.reads), LAMBDA f :
           IF f.thrown THEN Return(f.cache, Arr(<<>>), f.reads) ELSE f))))

\* getEnabledFeatures(user)
getEnabledFeatures(c, user) ==
  Bind(getConfig(c), LAMBDA g :
  Bind(Get(g.val, "features"), LAMBDA features :
  Bind(ObjectKeys(features.val), LAMBDA keys :
    IF g.thrown \/ features.thrown \/ keys.thrown
    THEN Return(g.cache, Arr(<<>>), g.reads)
    ELSE Bind(FilterFrom(g.cache, keys.val, user, 1, <<>>, g.reads), LAMBDA f :
           IF f.thrown THEN Return(f.cache, Arr(<<>>), f.reads) ELSE f))))

\* getFeatureConfig(featureName): config.features[featureName] || null
getFeatureConfig(c, featureName) ==
  Bind(getConfig(c), LAMBDA g :
  Bind(Get(g.val, "features"), LAMBDA features :
  Bind(Get(features.val, featureName), LAMBDA feature :
    IF g.thrown \/ features.thrown \/ feature.thrown
    THEN Return(g.cache, Null, g.reads)
    ELSE Return(g.cache, IF Truthy(feature.val) THEN feature.val ELSE Null, g.reads))))

\* featureExists(featureName): featureName in config.features
featureExists(c, featureName) ==
  Bind(getConfig(c), LAMBDA g :
  Bind(Get(g.val, "features"), LAMBDA features :
  Bind(In(featureName, features.val), LAMBDA has :
    IF g.thrown \/ features.thrown \/ has.thrown
    THEN Return(g.cache, Bool(FALSE), g.reads)
    ELSE Return(g.cache, Bool(has.val), g.reads))))

\* getAllFeatureNames(): Object.keys(config.features)
RECURSIVE StrItems(_)
StrItems(keys) == IF keys = <<>> THEN <<>> ELSE <<Str(Head(keys))>> \o StrItems(Tail(keys))

getAllFeatureNames(c) ==
  Bind(getConfig(c), LAMBDA g :
  Bind(Get(g.val, "features"), LAMBDA features :
  Bind(ObjectKeys(features.val), LAMBDA keys :
    IF g.thrown \/ features.thrown \/ keys.thrown
    THEN Return(g.cache, Arr(<<>>), g.reads)
    ELSE Return(g.cache, Arr(StrItems(keys.val)), g.reads))))

\* getFeatureFlags(featureNames, user): result[name] = isFeatureEnabled(...)
RECURSIVE FlagsFrom(_, _, _, _, _, _)
FlagsFrom(c, featureNames, user, i, acc, n) ==
  IF i > Len(featureNames) THEN Return(c, acc, n)
  ELSE Bind(isFeatureEnabled(c, featureNames[i], user), LAMBDA r :
       IF r.thrown THEN Throw(r.cache, n + r.reads)
       ELSE Bind(Assign(acc, featureNames[i], r.val), LAMBDA o :
              FlagsFrom(r.cache, featureNames, user, i + 1, o, n + r.reads)))

getFeatureFlags(c, featureNames, user) == FlagsFrom(c, featureNames, user, 1, EmptyObj, 0)

(***************************************************************************)
(* loader.ts                                                               *)
(***************************************************************************)
Valid == [thrown |-> FALSE, error |-> "", feature |-> "", check |-> ""]
Invalid(name, check) ==
  [thrown |-> TRUE, error |-> "FeatureFlagValidationError", feature |-> name, check |-> check]

\* items.every(id => typeof id === 'string')
EveryString(items) == \A i \in 1..Len(items) : items[i].t = "string"

\* (mutant) the comment is not checked.
validateFeatureConfig_AnyComment(name, config) ==
  IF ~TypeofObject(config) \/ config.t = "null" THEN Invalid(name, "object")
  ELSE LET hasEnabled == In("enabled", config).val
           hasOnlyForUserIds == In("onlyForUserIds", config).val
           onlyForUserIds == Get(config, "onlyForUserIds").val
       IN IF ~hasEnabled /\ ~hasOnlyForUserIds THEN Invalid(name, "either")
          ELSE IF hasEnabled /\ Get(config, "enabled").val.t # "boolean"
               THEN Invalid(name, "enabled")
          ELSE IF hasOnlyForUserIds /\ onlyForUserIds.t # "array"
               THEN Invalid(name, "array")
          ELSE IF hasOnlyForUserIds /\ ~EveryString(onlyForUserIds.items)
               THEN Invalid(name, "strings")
          ELSE Valid

\* validateFeatureConfig(name, config): the first failed check, in order.
validateFeatureConfig(name, config) ==
  IF ~TypeofObject(config) \/ config.t = "null" THEN Invalid(name, "object")
  ELSE LET hasEnabled == In("enabled", config).val
           hasOnlyForUserIds == In("onlyForUserIds", config).val
           onlyForUserIds == Get(config, "onlyForUserIds").val
       IN IF ~hasEnabled /\ ~hasOnlyForUserIds THEN Invalid(name, "either")
          ELSE IF hasEnabled /\ Get(config, "enabled").val.t # "boolean"
               THEN Invalid(name, "enabled")
          ELSE IF hasOnlyForUserIds /\ onlyForUserIds.t # "array"
               THEN Invalid(name, "array")
          ELSE IF hasOnlyForUserIds /\ ~EveryString(onlyForUserIds.items)
               THEN Invalid(name, "strings")
          ELSE IF In("comment", config).val /\ Get(config, "comment").val.t # "string"
               THEN Invalid(name, "comment")
          ELSE Valid

\* for (const [name, config] of Object.entries(data.features)), from index i
RECURSIVE ValidateEntries(_, _, _)
ValidateEntries(features, keys, i) ==
  IF i > Len(keys) THEN Valid
  ELSE Bind(validateFeatureConfig(keys[i], Get(features, keys[i]).val), LAMBDA v :
         IF v.thrown THEN v ELSE ValidateEntries(features, keys, i + 1))

\* validateConfig(data)
validateConfig(data) ==
  IF ~TypeofObject(data) \/ data.t = "null" THEN Invalid("", "config-object")
  ELSE IF ~In("features", data).val THEN Invalid("", "features-missing")
  ELSE LET features == Get(data, "features").val IN
       IF ~TypeofObject(features) \/ features.t = "null"
       THEN Invalid("", "features-object")
       ELSE ValidateEntries(features, ObjectKeys(features).val, 1)

\* detectEnvironment()
detectEnvironment == IF host.window /\ host.document THEN "browser" ELSE "node"

\* The file at the resolved path: missing, unreadable (readFileSync throws),
\* not YAML (yaml.load throws YAMLException), or YAML holding a document.
FileOf(state, doc) == [state |-> state, doc |-> doc]

\* What a failed load throws.
Failure(error, feature, check) ==
  [thrown |-> TRUE, error |-> error, feature |-> feature, check |-> check, val |-> Undef]
Loaded(data) == [thrown |-> FALSE, error |-> "", feature |-> "", check |-> "", val |-> data]

\* (mutant) a document the validator rejects is replaced by the empty
\* configuration.
loadFeatureFlags_Lenient(file) ==
  IF detectEnvironment # "node" THEN Failure("Error", "", "environment")
  ELSE IF file.state = "missing" THEN Failure("FeatureFlagValidationError", "", "not-found")
  ELSE IF file.state = "unreadable" THEN Failure("Error", "", "read")
  ELSE IF file.state = "not-yaml" THEN Failure("FeatureFlagValidationError", "", "yaml-syntax")
  ELSE IF validateConfig(file.doc).thrown THEN Loaded(EmptyConfig)
  ELSE Loaded(file.doc)

\* (mutant) no existsSync test: a missing file fails in readFileSync.
loadFeatureFlags_NoExistsTest(file) ==
  IF detectEnvironment # "node" THEN Failure("Error", "", "environment")
  ELSE IF file.state \in {"missing", "unreadable"} THEN Failure("Error", "", "read")
  ELSE IF file.state = "not-yaml" THEN Failure("FeatureFlagValidationError", "", "yaml-syntax")
  ELSE LET v == validateConfig(file.doc) IN
       IF v.thrown THEN Failure(v.error, v.feature, v.check) ELSE Loaded(file.doc)

\* (mutant) the environment is tested after the file.
loadFeatureFlags_FileFirst(file) ==
  IF file.state = "missing" THEN Failure("FeatureFlagValidationError", "", "not-found")
  ELSE IF detectEnvironment # "node" THEN Failure("Error", "", "environment")
  ELSE IF file.state = "unreadable" THEN Failure("Error", "", "read")
  ELSE IF file.state = "not-yaml" THEN Failure("FeatureFlagValidationError", "", "yaml-syntax")
  ELSE LET v == validateConfig(file.doc) IN
       IF v.thrown THEN Failure(v.error, v.feature, v.check) ELSE Loaded(file.doc)

\* loadFeatureFlags() on that file.
loadFeatureFlags(file) ==
  IF detectEnvironment # "node"
  THEN [thrown |-> TRUE, error |-> "Error", feature |-> "", check |-> "environment", val |-> Undef]
  ELSE IF file.state = "missing"
  THEN [thrown |-> TRUE, error |-> "FeatureFlagValidationError", feature |-> "",
        check |-> "not-found", val |-> Undef]
  ELSE IF file.state = "unreadable"
  THEN [thrown |-> TRUE, error |-> "Error", feature |-> "", check |-> "read", val |-> Undef]
  ELSE IF file.state = "not-yaml"
  THEN [thrown |-> TRUE, error |-> "FeatureFlagValidationError", feature |-> "",
        check |-> "yaml-syntax", val |-> Undef]
  ELSE LET v == validateConfig(file.doc) IN
       IF v.thrown
       THEN [thrown |-> TRUE, error |-> v.error, feature |-> v.feature,
             check |-> v.check, val |-> Undef]
       ELSE [thrown |-> FALSE, error |-> "", feature |-> "", check |-> "", val |-> file.doc]

\* A JavaScript string holding JSON text.
JsonText(ts) == [t |-> "jsontext", text |-> ts]

\* (mutant) String(config) in place of JSON.stringify(config).
loadFeatureFlagsAsString_ToString(file) ==
  LET config == loadFeatureFlags(file) IN
  IF config.thrown THEN config
  ELSE [config EXCEPT !.val = JsonText(<<BadTok>>)]

\* loadFeatureFlagsAsString() on that file.
loadFeatureFlagsAsString(file) ==
  LET config == loadFeatureFlags(file) IN
  IF config.thrown THEN config
  ELSE [config EXCEPT !.val = JsonText(JSONstringify(config.val))]

(***************************************************************************)
(* Inputs.                                                                 *)
(***************************************************************************)
\* Longest onlyForUserIds list, and longest list of names given to a batch
\* operation.
MaxIds == 2
MaxNames == 2

RECURSIVE SeqsUpTo(_, _)
SeqsUpTo(S, n) ==
  IF n = 0 THEN {<<>>}
  ELSE LET shorter == SeqsUpTo(S, n - 1) IN
       shorter \cup {Append(q, e) : q \in shorter, e \in S}

\* The object built by assigning vals[i] to keys[i] in turn, leaving out the
\* keys whose value is undefined.
RECURSIVE Build(_, _, _, _)
Build(keys, vals, i, acc) ==
  IF i > Len(keys) THEN acc
  ELSE Bind(IF vals[i] = Undef THEN acc ELSE ObjPut(acc, keys[i], vals[i]),
            LAMBDA o : Build(keys, vals, i + 1, o))

MkObj(keys, vals) == Build(keys, vals, 1, EmptyObj)
Rule(enabled, onlyForUserIds, comment) ==
  MkObj(<<"enabled", "onlyForUserIds", "comment">>, <<enabled, onlyForUserIds, comment>>)
Config(features) == MkObj(<<"features">>, <<features>>)

UserIds == {"", "u1", "u2"}
ListedIds == {"", "u1"}
IdLists == {Arr(StrItems(q)) : q \in SeqsUpTo(ListedIds, MaxIds)}
Flags == {Undef, Bool(TRUE), Bool(FALSE)}

\* Rules of the FeatureFlagConfig shape (enabled or onlyForUserIds present).
TypedRules ==
  {Rule(e, l, Undef) : e \in Flags, l \in IdLists \cup {Undef}} \ {EmptyObj}
CommentedRules ==
  {Rule(Bool(TRUE), Undef, Str("c")), Rule(Bool(FALSE), Arr(<<Str("u1")>>), Str("c")),
   MkObj(<<"enabled", "weight">>, <<Bool(TRUE), NaN>>)}
PairRules ==
  {Rule(Bool(TRUE), Undef, Undef), Rule(Bool(FALSE), Undef, Undef),
   Rule(Bool(TRUE), Arr(<<Str("u1")>>), Undef)}

\* Documents of the FeatureFlagsConfig shape.
TypedConfigs ==
  {Config(EmptyObj)}
  \cup {Config(MkObj(<<"a">>, <<r>>)) : r \in TypedRules \cup CommentedRules}
  \cup {Config(MkObj(<<"b", "a">>, <<r, q>>)) : r \in PairRules, q \in PairRules}
  \cup {Config(MkObj(<<"b", "0">>, <<Rule(Bool(TRUE), Undef, Undef),
                                     Rule(Undef, Arr(<<Str("u1")>>), Undef)>>))}

\* Documents of other shapes.
UntypedRules ==
  {Null, Bool(TRUE), Num(1), Str("hi"), Arr(<<>>), EmptyObj,
   Rule(Str("yes"), Undef, Undef), Rule(Num(1), Undef, Undef),
   Rule(Bool(TRUE), Null, Undef), Rule(Bool(TRUE), Str("u1"), Undef),
   Rule(Bool(TRUE), Num(1), Undef), Rule(Undef, Arr(<<Num(1)>>), Undef),
   Rule(Undef, MkObj(<<"length">>, <<Num(1)>>), Undef),
   Rule(Bool(TRUE), Undef, Num(1))}
UntypedDocs ==
  {Null, Bool(FALSE), Bool(TRUE), Num(0), Num(1), Str(""), Str("hi"), Arr(<<>>), EmptyObj,
   MkObj(<<"flags">>, <<EmptyObj>>),
   Config(Null), Config(Str("hi")), Config(Num(1)),
   Config(Arr(<<Rule(Bool(TRUE), Undef, Undef)>>))}
  \cup {Config(MkObj(<<"a">>, <<r>>)) : r \in UntypedRules}

\* Texts that are not JSON.
BrokenTexts ==
  {<<BadTok>>, <<Punct("{")>>, <<Punct("{"), StrTok("features"), Punct(":")>>,
   <<Lit("null"), Lit("null")>>, <<Punct("["), Lit("true"), Punct(","), Punct("]")>>}

Users ==
  {Undef, EmptyObj,
   MkObj(<<"userId", "handle", "email">>, <<Str("u1"), Str("h"), Str("e")>>),
   MkObj(<<"email">>, <<Str("u1")>>)}
  \cup {MkObj(<<"userId">>, <<Str(u)>>) : u \in UserIds}
BatchUsers ==
  {Undef, MkObj(<<"userId">>, <<Str("u1")>>),
   MkObj(<<"handle", "email">>, <<Str("u1"), Str("u1")>>)}
QueryNames == {"a", "b", "0", "zz", "toString"}
NameLists == SeqsUpTo({"a", "b"}, MaxNames)
\* Lists given to getFeatureFlags: names of features, and the name __proto__.
FlagLists == NameLists \cup {<<"__proto__">>, <<"a", "__proto__">>}

(***************************************************************************)
(* Operations.                                                             *)
(***************************************************************************)
\* No file: the call is not one of the loader.
NoFile == [state |-> "none", doc |-> Undef]

Call(op, featureName, featureNames, user) ==
  [op |-> op, featureName |-> featureName, featureNames |-> featureNames, user |-> user,
   file |-> NoFile]

NoError(r) == [thrown |-> r.thrown, error |-> IF r.thrown THEN "Error" ELSE "",
               feature |-> "", check |-> "", val |-> r.val]

\* A call of a runtime operation that returned r.
Runtime(c, r) ==
  /\ call' = c
  /\ cachedConfig' = r.cache
  /\ result' = NoError(r)
  /\ reads' = r.reads
  /\ UNCHANGED <<host, env, loaded, callers>>

GetConfig == Runtime(Call("getConfig", "", <<>>, Undef), getConfig(cachedConfig))

ClearCache == Runtime(Call("clearCache", "", <<>>, Undef), clearCache(cachedConfig))

IsFeatureEnabled(names, users) ==
  \E n \in names, u \in users :
    Runtime(Call("isFeatureEnabled", n, <<>>, u), isFeatureEnabled(cachedConfig, n, u))

IsAnyFeatureEnabled(lists, users) ==
  \E l \in lists, u \in users :
    Runtime(Call("isAnyFeatureEnabled", "", l, u), isAnyFeatureEnabled(cachedConfig, l, u))

AreAllFeaturesEnabled(lists, users) ==
  \E l \in lists, u \in users :
    Runtime(Call("areAllFeaturesEnabled", "", l, u), areAllFeaturesEnabled(cachedConfig, l, u))

GetEnabledFeatures(users) ==
  \E u \in users :
    Runtime(Call("getEnabledFeatures", "", <<>>, u), getEnabledFeatures(cachedConfig, u))

GetFeatureFlags(lists, users) ==
  \E l \in lists, u \in users :
    Runtime(Call("getFeatureFlags", "", l, u), getFeatureFlags(cachedConfig, l, u))

GetFeatureConfig(names) ==
  \E n \in names :
    Runtime(Call("getFeatureConfig", n, <<>>, Undef), getFeatureConfig(cachedConfig, n))

FeatureExists(names) ==
  \E n \in names :
    Runtime(Call("featureExists", n, <<>>, Undef), featureExists(cachedConfig, n))

GetAllFeatureNames ==
  Runtime(Call("getAllFeatureNames", "", <<>>, Undef), getAllFeatureNames(cachedConfig))

\* The host program assigns a transport variable, or deletes it.
TransportNames == {"FEATURE_FLAGS_CONFIG", "FFXL_CONFIG"}

SetEnv(texts) ==
  /\ host.process
  /\ \E v \in TransportNames, text \in texts : env' = [env EXCEPT ![v] = SetTo(text)]
  /\ call' = Call("setenv", "", <<>>, Undef)
  /\ UNCHANGED <<host, cachedConfig, result, reads, loaded, callers>>

DeleteEnv ==
  /\ host.process
  /\ \E v \in TransportNames : env[v].set /\ env' = [env EXCEPT ![v] = Unset]
  /\ call' = Call("setenv", "", <<>>, Undef)
  /\ UNCHANGED <<host, cachedConfig, result, reads, loaded, callers>>

\* A call of a loader operation on the file at the resolved path.
\* loaded keeps the Configuration of the last successful load.
\* (mutant) a successful load writes the configuration to FFXL_CONFIG.
Loader_Publishes(op, r, file) ==
  /\ call' = [Call(op, "", <<>>, Undef) EXCEPT !.file = file]
  /\ result' = r
  /\ loaded' = IF r.thrown THEN loaded ELSE file.doc
  /\ reads' = 0
  /\ env' = IF r.thrown \/ ~host.process THEN env
            ELSE [env EXCEPT !.FFXL_CONFIG = SetTo(JSONstringify(file.doc))]
  /\ UNCHANGED <<host, cachedConfig, callers>>

Loader(op, r, file) ==
  /\ call' = [Call(op, "", <<>>, Undef) EXCEPT !.file = file]
  /\ result' = r
  /\ loaded' = IF r.thrown THEN loaded ELSE file.doc
  /\ reads' = 0
  /\ UNCHANGED <<host, env, cachedConfig, callers>>

LoadFeatureFlags(files) ==
  \E f \in files : Loader("loadFeatureFlags", loadFeatureFlags(f), f)

LoadFeatureFlagsAsString(files) ==
  \E f \in files : Loader("loadFeatureFlagsAsString", loadFeatureFlagsAsString(f), f)

\* The build script hands the configuration over:
\* process.env.FFXL_CONFIG = loadFeatureFlagsAsString(), or
\* process.env.FFXL_CONFIG = JSON.stringify(config).
Export ==
  /\ host.process
  /\ loaded # Undef
  /\ env' = [env EXCEPT !.FFXL_CONFIG =
               SetTo(IF call.op = "loadFeatureFlagsAsString" /\ ~result.thrown
                     THEN result.val.text
                     ELSE JSONstringify(loaded))]
  /\ call' = Call("export", "", <<>>, Undef)
  /\ UNCHANGED <<host, cachedConfig, result, reads, loaded, callers>>

Start(hosts, first, second) ==
  /\ host \in hosts
  /\ env \in {[FEATURE_FLAGS_CONFIG |-> x, FFXL_CONFIG |-> y] :
                x \in (IF host.process THEN first ELSE {Unset}),
                y \in (IF host.process THEN second ELSE {Unset})}
  /\ cachedConfig = Null
  /\ call = Call("start", "", <<>>, Undef)
  /\ result = [thrown |-> FALSE, error |-> "", feature |-> "", check |-> "", val |-> Undef]
  /\ reads = 0
  /\ loaded = Undef
  /\ callers = <<>>

(***************************************************************************)
(* SpecEval: a process started with FFXL_CONFIG holding any text, in which *)
(* the runtime operations are called in any order.                         *)
(***************************************************************************)
EvalTexts == {<<>>} \cup BrokenTexts \cup {JSONstringify(d) : d \in TypedConfigs \cup UntypedDocs}

InitEval == Start({NodeHost, BrowserHost}, {Unset}, {Unset} \cup {SetTo(x) : x \in EvalTexts})

NextEval ==
  \/ GetConfig
  \/ ClearCache
  \/ IsFeatureEnabled(QueryNames, Users)
  \/ IsAnyFeatureEnabled(NameLists, BatchUsers)
  \/ AreAllFeaturesEnabled(NameLists, BatchUsers)
  \/ GetEnabledFeatures(Users)
  \/ GetFeatureFlags(FlagLists, BatchUsers)
  \/ GetFeatureConfig(QueryNames)
  \/ FeatureExists(QueryNames)
  \/ GetAllFeatureNames

SpecEval == InitEval /\ [][NextEval]_vars

(***************************************************************************)
(* Spec: a process in which the transport variables are assigned and       *)
(* deleted, the loader runs and the runtime operations are called, in any  *)
(* order.                                                                  *)
(***************************************************************************)
ConfigOn == Config(MkObj(<<"a">>, <<Rule(Bool(TRUE), Undef, Undef)>>))
ConfigListed == Config(MkObj(<<"a">>, <<Rule(Bool(FALSE), Arr(<<Str("u1")>>), Undef)>>))

StoreTexts ==
  {<<>>, <<BadTok>>, <<Lit("null")>>, <<NumTok(0)>>,
   JSONstringify(EmptyObj), JSONstringify(ConfigOn), JSONstringify(ConfigListed)}
StoreFiles ==
  {FileOf("missing", Undef), FileOf("not-yaml", Undef),
   FileOf("ok", ConfigOn), FileOf("ok", Config(MkObj(<<"a">>, <<EmptyObj>>)))}

Init == Start({NodeHost, BrowserHost}, {Unset}, {Unset})

Next ==
  \/ SetEnv(StoreTexts)
  \/ DeleteEnv
  \/ GetConfig
  \/ ClearCache
  \/ IsFeatureEnabled({"a", "zz"}, BatchUsers)
  \/ IsAnyFeatureEnabled({<<"zz", "a">>}, BatchUsers)
  \/ AreAllFeaturesEnabled({<<"a", "a">>}, BatchUsers)
  \/ GetEnabledFeatures(BatchUsers)
  \/ GetFeatureFlags({<<"a", "zz">>}, BatchUsers)
  \/ GetFeatureConfig({"a"})
  \/ FeatureExists({"a"})
  \/ GetAllFeatureNames
  \/ LoadFeatureFlags(StoreFiles)
  \/ LoadFeatureFlagsAsString(StoreFiles)
  \/ Export

Spec == Init /\ [][Next]_vars

(***************************************************************************)
(* SpecRoundTrip: the build step loads one file and hands the              *)
(* configuration over in FFXL_CONFIG; the runtime then reads it.           *)
(***************************************************************************)
YamlFiles ==
  {FileOf("missing", Undef), FileOf("unreadable", Undef), FileOf("not-yaml", Undef)}
  \cup {FileOf("ok", d) : d \in TypedConfigs \cup UntypedDocs}

InitRoundTrip == Start({NodeHost, BundledBrowserHost}, {Unset}, {Unset})

NextRoundTrip ==
  \/ loaded = Undef /\ LoadFeatureFlags(YamlFiles)
  \/ loaded = Undef /\ LoadFeatureFlagsAsString(YamlFiles)
  \/ ~env.FFXL_CONFIG.set /\ Export
  \/ env.FFXL_CONFIG.set /\ GetConfig
  \/ env.FFXL_CONFIG.set /\ ClearCache
  \/ env.FFXL_CONFIG.set /\ IsFeatureEnabled(QueryNames, Users)

SpecRoundTrip == InitRoundTrip /\ [][NextRoundTrip]_vars

(***************************************************************************)
(* What the claims speak of.                                               *)
(***************************************************************************)
\* The rule a configuration holds under a name as an own key of its features
\* map, or undefined.
FeaturesOf(config) == IF config.t = "object" THEN Get(config, "features").val ELSE Undef
HasRule(config, name) ==
  /\ FeaturesOf(config).t \in {"object", "array"}
  /\ name # "length"
  /\ HasOwn(FeaturesOf(config), name)
RuleOf(config, name) == Get(FeaturesOf(config), name).val

\* The field of a rule, or undefined when the rule does not have it.
Field(rule, k) == IF rule.t = "object" /\ KeyPos(rule, k) # 0 THEN Get(rule, k).val ELSE Undef

\* The rule has the FeatureRule shape as far as evaluation reads it.
RuleShaped(rule) ==
  /\ rule.t = "object"
  /\ Field(rule, "enabled").t \in {"undefined", "boolean"}
  /\ \/ Field(rule, "onlyForUserIds") = Undef
     \/ /\ Field(rule, "onlyForUserIds").t = "array"
        /\ EveryString(Field(rule, "onlyForUserIds").items)

NonEmptyList(rule) ==
  Field(rule, "onlyForUserIds").t = "array" /\ Len(Field(rule, "onlyForUserIds").items) > 0

\* A user is supplied whose userId is an element of the rule's list.
UserListed(user, rule) ==
  /\ user.t = "object"
  /\ KeyPos(user, "userId") # 0
  /\ \E i \in 1..Len(Field(rule, "onlyForUserIds").items) :
       Field(rule, "onlyForUserIds").items[i] = Get(user, "userId").val

RuntimeOps ==
  {"isFeatureEnabled", "isAnyFeatureEnabled", "areAllFeaturesEnabled", "getEnabledFeatures",
   "getFeatureFlags", "getFeatureConfig", "featureExists", "getAllFeatureNames"}

\* C1 (as claimed): in a validated configuration, a feature whose rule has a
\* non-empty onlyForUserIds is enabled exactly for the supplied users whose
\* userId is an element of the list, whatever enabled says.
C1_ListDecides ==
  (/\ call.op = "isFeatureEnabled"
   /\ ~validateConfig(cachedConfig).thrown
   /\ HasRule(cachedConfig, call.featureName)
   /\ NonEmptyList(RuleOf(cachedConfig, call.featureName)))
  => result.val = Bool(UserListed(call.user, RuleOf(cachedConfig, call.featureName)))

\* C1 (what the code does): the same, for the users whose userId is not the
\* empty string; a user whose userId is "" is answered false.
C1_HoldsForNonEmptyIds ==
  (/\ call.op = "isFeatureEnabled"
   /\ ~validateConfig(cachedConfig).thrown
   /\ HasRule(cachedConfig, call.featureName)
   /\ NonEmptyList(RuleOf(cachedConfig, call.featureName)))
  => result.val = Bool(/\ UserListed(call.user, RuleOf(cachedConfig, call.featureName))
                       /\ Get(call.user, "userId").val # Str(""))

\* C2: a rule whose onlyForUserIds is absent or empty evaluates to its enabled
\* value, false when enabled is absent, for every user and for none.
C2_EnabledDecides ==
  (/\ call.op = "isFeatureEnabled"
   /\ HasRule(cachedConfig, call.featureName)
   /\ RuleShaped(RuleOf(cachedConfig, call.featureName))
   /\ ~NonEmptyList(RuleOf(cachedConfig, call.featureName)))
  => /\ ~result.thrown
     /\ result.val = Bool(Field(RuleOf(cachedConfig, call.featureName), "enabled") = Bool(TRUE))

C2_Witness ==
  /\ call.op = "isFeatureEnabled"
  /\ call.user = Undef
  /\ HasRule(cachedConfig, call.featureName)
  /\ RuleOf(cachedConfig, call.featureName) = Rule(Bool(TRUE), Arr(<<>>), Undef)
  /\ result.val = Bool(TRUE)

\* C3: a name that is not a key of the features map evaluates to false and
\* nothing is raised, whatever the configuration and the user.
C3_UnknownIsFalse ==
  (call.op = "isFeatureEnabled" /\ ~HasRule(cachedConfig, call.featureName))
  => (~result.thrown /\ result.val = Bool(FALSE))

C3_Witness ==
  /\ call.op = "isFeatureEnabled"
  /\ call.featureName = "zz"
  /\ HasRule(cachedConfig, "a")
  /\ RuleOf(cachedConfig, "a") = Rule(Bool(TRUE), Undef, Undef)
  /\ result.val = Bool(FALSE)

\* C4: no runtime operation raises to its caller, whatever the transport
\* variables hold and whatever the cache holds, and isFeatureEnabled answers
\* false when its evaluation fails.
C4_NeverRaises ==
  /\ call.op \in RuntimeOps => ~result.thrown
  /\ (call.op = "isFeatureEnabled"
      /\ EvaluateRule(cachedConfig, call.featureName, call.user).thrown)
     => result.val = Bool(FALSE)

C4_Witness ==
  /\ call.op = "isFeatureEnabled"
  /\ env.FFXL_CONFIG = SetTo(<<Lit("null")>>)
  /\ EvaluateRule(cachedConfig, call.featureName, call.user).thrown
  /\ ~result.thrown
  /\ result.val = Bool(FALSE)

\* C10: isAnyFeatureEnabled is the OR and areAllFeaturesEnabled the AND of
\* isFeatureEnabled over the names; false and true on no names.
EnabledNow(name, user) == isFeatureEnabled(cachedConfig, name, user).val = Bool(TRUE)

C10_AnyIsOrAllIsAnd ==
  /\ call.op = "isAnyFeatureEnabled" =>
       result.val = Bool(\E i \in 1..Len(call.featureNames) :
                           EnabledNow(call.featureNames[i], call.user))
  /\ call.op = "areAllFeaturesEnabled" =>
       result.val = Bool(\A i \in 1..Len(call.featureNames) :
                           EnabledNow(call.featureNames[i], call.user))

C10_Witness ==
  /\ call.op = "isAnyFeatureEnabled"
  /\ call.featureNames = <<"a", "b">>
  /\ ~EnabledNow("a", call.user)
  /\ EnabledNow("b", call.user)
  /\ call.user # Undef
  /\ ~EnabledNow("b", Undef)
  /\ result.val = Bool(TRUE)

\* The slot is populated when getConfig answers from it: the test of
\* getConfig, if (cachedConfig).
Populated(c) == Truthy(c)

\* C5: on an empty slot, when neither transport variable is set or every
\* text that is set fails to parse, getConfig raises nothing, stores the
\* empty configuration and returns it.
NothingParses ==
  \A v \in TransportNames : ~host.process \/ ~env[v].set \/ JSONparse(env[v].text).thrown

C5_DegradesToEmpty ==
  [][(cachedConfig = Null /\ call'.op = "getConfig" /\ NothingParses)
     => (~result'.thrown /\ result'.val = EmptyConfig /\ cachedConfig' = EmptyConfig)]_vars

C5_Witness ==
  /\ call.op = "getConfig"
  /\ reads = 1
  /\ env.FEATURE_FLAGS_CONFIG = Unset
  /\ env.FFXL_CONFIG = SetTo(<<BadTok>>)
  /\ result.val = EmptyConfig
  /\ cachedConfig = EmptyConfig

C7_CacheIsSticky ==
  [][(Populated(cachedConfig) /\ call'.op \in RuntimeOps \cup {"getConfig"})
     => /\ cachedConfig' = cachedConfig
        /\ reads' = 0
        /\ call'.op = "getConfig" => result'.val = cachedConfig
        /\ call'.op = "isFeatureEnabled" =>
             result'.val = Bool(LET r == EvaluateRule(cachedConfig, call'.featureName, call'.user)
                                IN ~r.thrown /\ r.val)]_vars

C7_Witness ==
  /\ call.op = "getConfig"
  /\ reads = 0
  /\ cachedConfig = EmptyConfig
  /\ result.val = EmptyConfig
  /\ env.FFXL_CONFIG = SetTo(JSONstringify(ConfigOn))
  /\ env.FEATURE_FLAGS_CONFIG = Unset

\* C8: clearCache raises nothing and empties the slot, and getConfig on the
\* emptied slot consults the transport variables as they are then and
\* returns what they hold, parsed.
C8_ClearThenReread ==
  [][/\ call'.op = "clearCache" => (~result'.thrown /\ cachedConfig' = Null)
     /\ (cachedConfig = Null /\ call'.op = "getConfig" /\ ~FalsyString(ConfigString)
         /\ ~JSONparse(ConfigString.text).thrown)
        => (reads' = 1 /\ result'.val = JSONparse(ConfigString.text).val)]_vars

C8_Witness ==
  /\ call.op = "getConfig"
  /\ reads = 1
  /\ env.FFXL_CONFIG = SetTo(JSONstringify(ConfigListed))
  /\ env.FEATURE_FLAGS_CONFIG = Unset
  /\ result.val = ConfigListed
  /\ cachedConfig = ConfigListed

\* C9: when FFXL_CONFIG holds the serialization of a configuration the
\* validator accepted, isFeatureEnabled on an empty slot answers, for every
\* feature name of that configuration and every user, what evaluating the
\* configuration itself gives.
Directly(config, name, user) ==
  LET r == EvaluateRule(config, name, user) IN ~r.thrown /\ r.val

C9_RoundTrip ==
  (/\ call.op = "isFeatureEnabled"
   /\ reads = 1
   /\ loaded # Undef
   /\ env.FFXL_CONFIG.set
   /\ HasRule(loaded, call.featureName))
  => result.val = Bool(Directly(loaded, call.featureName, call.user))

C9_Witness ==
  /\ call.op = "isFeatureEnabled"
  /\ reads = 1
  /\ loaded = Config(MkObj(<<"a">>, <<MkObj(<<"enabled", "weight">>, <<Bool(TRUE), NaN>>)>>))
  /\ cachedConfig # loaded
  /\ call.featureName = "a"
  /\ result.val = Bool(TRUE)

(***************************************************************************)
(* The batch operations over the configuration.                            *)
(***************************************************************************)
\* The set of the elements of a sequence.
Range(q) == {q[i] : i \in 1..Len(q)}

\* The mapping has each of its keys once, its keys are the requested names,
\* and it holds under each name what isFeatureEnabled gives for it.
FlagsOfNames(flags, names, user) ==
  /\ flags.t = "object"
  /\ Cardinality(Range(flags.keys)) = Len(flags.keys)
  /\ Range(flags.keys) = Range(names)
  /\ \A i \in 1..Len(flags.keys) :
       flags.vals[i] = isFeatureEnabled(cachedConfig, flags.keys[i], user).val

\* C11: getFeatureFlags returns a mapping whose keys are exactly the
\* requested names, each holding isFeatureEnabled of that name.
C11_FlagsOfRequestedNames ==
  call.op = "getFeatureFlags" =>
    ~result.thrown /\ FlagsOfNames(result.val, call.featureNames, call.user)

\* C11, for requested names other than __proto__: the same holds.
C11_HoldsForOrdinaryNames ==
  (call.op = "getFeatureFlags" /\ "__proto__" \notin Range(call.featureNames)) =>
    ~result.thrown /\ FlagsOfNames(result.val, call.featureNames, call.user)

\* C12: getEnabledFeatures returns the names of the configuration, in the
\* order getAllFeatureNames gives them, for which isFeatureEnabled is true
\* for the user, each once.
EnabledAmong(names, user) == SelectSeq(names, LAMBDA n : EnabledNow(n.s, user))

C12_EnabledInKeyOrder ==
  call.op = "getEnabledFeatures" =>
    /\ ~result.thrown
    /\ result.val = Arr(EnabledAmong(getAllFeatureNames(cachedConfig).val.items, call.user))
    /\ Cardinality(Range(result.val.items)) = Len(result.val.items)

\* A configuration written with b before 0, where 0 is listed for u1 only,
\* read for u1: both names are enabled, 0 first.
C12_Witness ==
  /\ call.op = "getEnabledFeatures"
  /\ call.user # Undef
  /\ ~EnabledNow("0", Undef)
  /\ result.val = Arr(<<Str("0"), Str("b")>>)

(***************************************************************************)
(* SpecLoad: the loader is called, in a Node host or in a browser, on a    *)
(* file that is missing, unreadable, not YAML, or YAML holding any         *)
(* document.                                                                *)
(***************************************************************************)
\* Entries that fail several checks of validateFeatureConfig at once.
FaultyRules ==
  {Rule(Str("yes"), Str("u1"), Num(1)), Rule(Undef, Arr(<<Num(1)>>), Num(1)),
   Rule(Null, Undef, Undef), Rule(Bool(TRUE), Undef, Null),
   MkObj(<<"comment">>, <<Num(1)>>), Arr(<<Str("x")>>)}

\* Documents with two entries, written b first.
PairEntries ==
  {Rule(Bool(TRUE), Undef, Undef), Str("hi"), Arr(<<>>), EmptyObj,
   Rule(Num(1), Undef, Undef), Rule(Bool(TRUE), Undef, Num(1))}
FaultyDocs ==
  {Config(MkObj(<<"a">>, <<r>>)) : r \in FaultyRules}
  \cup {Config(MkObj(<<"b", "a">>, <<r, q>>)) : r \in PairEntries, q \in PairEntries}
  \cup {Config(MkObj(<<"b", "0">>, <<Rule(Num(1), Undef, Undef), EmptyObj>>)),
        Config(Arr(<<>>)), Config(Arr(<<Str("hi")>>)),
        Arr(<<Config(EmptyObj)>>)}

\* yaml.load gives undefined for an empty file.
LoadFiles == YamlFiles \cup {FileOf("ok", d) : d \in FaultyDocs \cup {Undef}}

InitLoad == Start({NodeHost, BrowserHost, BundledBrowserHost}, {Unset}, {Unset})

NextLoad ==
  \/ LoadFeatureFlags(LoadFiles)
  \/ LoadFeatureFlagsAsString(LoadFiles)

SpecLoad == InitLoad /\ [][NextLoad]_vars

\* The last call was one of the loader, in the host where it may run, on a
\* file that exists and parses: the validator saw the document.
LoaderOps == {"loadFeatureFlags", "loadFeatureFlagsAsString"}
Validated == call.op \in LoaderOps /\ detectEnvironment = "node" /\ call.file.state = "ok"
Document == call.file.doc

\* A key-value mapping, as opposed to null, a scalar or a sequence.
Mapping(v) == v.t = "object"

ValidationError == result.thrown /\ result.error = "FeatureFlagValidationError"

\* C13: the validator fails with a validation error when the document is not
\* a mapping, when it has no features key, and when features is not a
\* mapping.
C13_RejectsNonMappings ==
  (/\ Validated
   /\ \/ ~Mapping(Document)
      \/ KeyPos(Document, "features") = 0
      \/ ~Mapping(Get(Document, "features").val))
  => ValidationError

\* C13, for every document except those whose features is a sequence: the
\* same holds.
C13_HoldsExceptSequences ==
  (/\ Validated
   /\ \/ ~Mapping(Document)
      \/ KeyPos(Document, "features") = 0
      \/ /\ ~Mapping(Get(Document, "features").val)
         /\ Get(Document, "features").val.t # "array")
  => ValidationError

\* The entries the validator visits: those of a features value that is a
\* mapping or a sequence.
HasEntries == Validated /\ Mapping(Document) /\ KeyPos(Document, "features") # 0
              /\ Get(Document, "features").val.t \in {"object", "array"}
Entries == Get(Document, "features").val
EntryNames == ObjectKeys(Entries).val
Entry(name) == Get(Entries, name).val

\* The entry has the field / the field's value.
Has(entry, k) == Mapping(entry) /\ KeyPos(entry, k) # 0

\* An entry as the specification admits it.
Admissible(entry) ==
  /\ Mapping(entry)
  /\ Has(entry, "enabled") \/ Has(entry, "onlyForUserIds")
  /\ Has(entry, "enabled") => Field(entry, "enabled").t = "boolean"
  /\ Has(entry, "onlyForUserIds") =>
       /\ Field(entry, "onlyForUserIds").t = "array"
       /\ \A i \in 1..Len(Field(entry, "onlyForUserIds").items) :
            Field(entry, "onlyForUserIds").items[i].t = "string"
  /\ Has(entry, "comment") => Field(entry, "comment").t = "string"

\* C14: the validator accepts the entries under features exactly when each
\* is a mapping with enabled or onlyForUserIds, a boolean enabled, an
\* onlyForUserIds that is a sequence of strings and a comment that is a
\* string; otherwise it fails with a validation error.
C14_AcceptsAdmissibleEntries ==
  HasEntries =>
    IF \A i \in 1..Len(EntryNames) : Admissible(Entry(EntryNames[i]))
    THEN ~result.thrown
    ELSE ValidationError

\* A document with the entries b (admissible) and a (a comment that is a
\* number) was rejected.
C14_Witness ==
  /\ HasEntries
  /\ EntryNames = <<"b", "a">>
  /\ Admissible(Entry("b"))
  /\ Has(Entry("a"), "enabled") /\ Field(Entry("a"), "comment") = Num(1)
  /\ ValidationError

\* C15: the loader returns a configuration only for a file that exists,
\* parses and passes the validator, and then returns that document; a
\* syntax failure of the parser is thrown as a validation error made from
\* the parser's message, a validator failure is thrown as it is, and any
\* other failure is thrown too.
C15_LoadsOrThrows ==
  (call.op \in LoaderOps /\ detectEnvironment = "node") =>
    /\ ~result.thrown =>
         /\ call.file.state = "ok"
         /\ ~validateConfig(Document).thrown
         /\ call.op = "loadFeatureFlags" => result.val = Document
         /\ call.op = "loadFeatureFlagsAsString" => result.val = JsonText(JSONstringify(Document))
    /\ call.file.state = "not-yaml" => ValidationError /\ result.check = "yaml-syntax"
    /\ (call.file.state = "ok" /\ validateConfig(Document).thrown) =>
         /\ ValidationError
         /\ result.feature = validateConfig(Document).feature
         /\ result.check = validateConfig(Document).check
    /\ call.file.state \in {"missing", "unreadable"} => result.thrown

\* A file that is not YAML was refused with the parser's failure, after an
\* earlier load had succeeded.
C15_Witness ==
  /\ call.op = "loadFeatureFlags"
  /\ detectEnvironment = "node"
  /\ call.file.state = "not-yaml"
  /\ loaded # Undef
  /\ ValidationError /\ result.check = "yaml-syntax"

\* C16 (as stated): for a missing file the loader fails with an error of a
\* kind of its own, which is not the validation error.
C16_NotFoundIsItsOwnKind ==
  (call.op \in LoaderOps /\ detectEnvironment = "node" /\ call.file.state = "missing") =>
    result.thrown /\ result.check = "not-found" /\ result.error # "FeatureFlagValidationError"

\* C16 (amended): for a missing file the loader fails, before reading or
\* parsing, with a validation error that says the file was not found.
C16_NotFoundIsValidationError ==
  (call.op \in LoaderOps /\ detectEnvironment = "node" /\ call.file.state = "missing") =>
    ValidationError /\ result.check = "not-found" /\ result.val = Undef

C16_Witness ==
  /\ call.op = "loadFeatureFlagsAsString"
  /\ detectEnvironment = "node"
  /\ call.file.state = "missing"
  /\ result.error = "FeatureFlagValidationError"
  /\ result.check = "not-found"

\* C17: in a host that detectEnvironment takes for a browser, both loader
\* operations fail with the environment error, which is not a validation
\* error, whatever the file is: the path and the file are not looked at.
C17_BrowserIsRefused ==
  (call.op \in LoaderOps /\ detectEnvironment = "browser") =>
    /\ result.thrown
    /\ result.check = "environment"
    /\ result.error = "Error"
    /\ loaded = Undef

\* In a browser the loader was called on a missing file and on a file
\* holding a valid document: the environment error both times.
C17_Witness ==
  /\ call.op \in LoaderOps
  /\ host.window /\ host.document
  /\ call.file.state = "ok" /\ ~validateConfig(Document).thrown
  /\ result.thrown /\ result.check = "environment"

(***************************************************************************)
(* The two transport variables.                                            *)
(***************************************************************************)
\* The configuration getConfig makes of one variable on an empty slot: what
\* its text parses to, the empty configuration when it is unset or its text
\* does not parse.
FromVariable(v) ==
  IF ~v.set \/ JSONparse(v.text).thrown THEN EmptyConfig ELSE JSONparse(v.text).val

\* C18 (as stated): on an empty slot getConfig takes FEATURE_FLAGS_CONFIG
\* whenever it is defined, and FFXL_CONFIG only when it is not.
C18_FirstDefinedWins ==
  [][(~Populated(cachedConfig) /\ call'.op = "getConfig" /\ host.process)
     => result'.val = FromVariable(IF env.FEATURE_FLAGS_CONFIG.set
                                   THEN env.FEATURE_FLAGS_CONFIG
                                   ELSE env.FFXL_CONFIG)]_vars

\* C18 (amended): on an empty slot getConfig takes FEATURE_FLAGS_CONFIG
\* whenever it is set to a text that is not empty, and FFXL_CONFIG when
\* FEATURE_FLAGS_CONFIG is unset or empty.
C18_FirstNonEmptyWins ==
  [][(~Populated(cachedConfig) /\ call'.op = "getConfig" /\ host.process)
     => result'.val = FromVariable(IF env.FEATURE_FLAGS_CONFIG.set
                                      /\ env.FEATURE_FLAGS_CONFIG.text # <<>>
                                   THEN env.FEATURE_FLAGS_CONFIG
                                   ELSE env.FFXL_CONFIG)]_vars

\* Both variables hold a configuration, not the same one, and getConfig
\* has returned that of FEATURE_FLAGS_CONFIG.
C18_Witness ==
  /\ call.op = "getConfig"
  /\ reads = 1
  /\ env.FEATURE_FLAGS_CONFIG = SetTo(JSONstringify(ConfigListed))
  /\ env.FFXL_CONFIG = SetTo(JSONstringify(ConfigOn))
  /\ result.val = ConfigListed

(***************************************************************************)
(* SpecRace: several callers are inside getConfig at once, on an empty     *)
(* slot, with the transport variables held fixed.  Each statement of       *)
(* getConfig that reads or writes the slot is one step.                    *)
(***************************************************************************)
MaxCallers == 2
Callers == 1..MaxCallers

\* A caller: where it is in getConfig, its configString and parsed locals,
\* and what it returned.
Entering == [pc |-> "check", configString |-> Unset, parsed |-> Undef, ret |-> Undef]

\* Caller i moves to pc, with its locals changed as given.
Goto(i, pc, configString, parsed, ret) ==
  callers' = [callers EXCEPT ![i] =
                [pc |-> pc, configString |-> configString, parsed |-> parsed, ret |-> ret]]

\* if (cachedConfig)
CheckCache(i) ==
  /\ callers[i].pc = "check"
  /\ Goto(i, IF Truthy(cachedConfig) THEN "hit" ELSE "read", Unset, Undef, Undef)
  /\ UNCHANGED <<host, env, cachedConfig, call, result, reads, loaded>>

\* return cachedConfig, of the cache hit and of the three stores
ReturnCached(i) ==
  /\ callers[i].pc \in {"hit", "return"}
  /\ Goto(i, "done", callers[i].configString, callers[i].parsed, cachedConfig)
  /\ UNCHANGED <<host, env, cachedConfig, call, result, reads, loaded>>

\* const configString = ...; if (!configString)
ReadTransport(i) ==
  /\ callers[i].pc = "read"
  /\ Goto(i, IF FalsyString(ConfigString) THEN "store-empty" ELSE "parse",
          ConfigString, Undef, Undef)
  /\ reads' = reads + 1
  /\ UNCHANGED <<host, env, cachedConfig, call, result, loaded>>

\* const parsed = JSON.parse(configString), or the jump to catch
ParseTransport(i) ==
  /\ callers[i].pc = "parse"
  /\ LET parsed == JSONparse(callers[i].configString.text) IN
       Goto(i, IF parsed.thrown THEN "store-empty" ELSE "store",
            callers[i].configString, parsed.val, Undef)
  /\ UNCHANGED <<host, env, cachedConfig, call, result, reads, loaded>>

\* cachedConfig = parsed
StoreParsed(i) ==
  /\ callers[i].pc = "store"
  /\ cachedConfig' = callers[i].parsed
  /\ Goto(i, "return", callers[i].configString, callers[i].parsed, Undef)
  /\ UNCHANGED <<host, env, call, result, reads, loaded>>

\* cachedConfig = { features: {} }
StoreEmpty(i) ==
  /\ callers[i].pc = "store-empty"
  /\ cachedConfig' = EmptyConfig
  /\ Goto(i, "return", callers[i].configString, callers[i].parsed, Undef)
  /\ UNCHANGED <<host, env, call, result, reads, loaded>>

RaceTexts == StoreTexts \cup {JSONstringify(Config(Null))}

InitRace ==
  /\ host \in {NodeHost, BrowserHost}
  /\ env \in {[FEATURE_FLAGS_CONFIG |-> x, FFXL_CONFIG |-> y] :
                x \in (IF host.process THEN {Unset, SetTo(<<>>)} ELSE {Unset}),
                y \in (IF host.process THEN {Unset} \cup {SetTo(t) : t \in RaceTexts}
                                        ELSE {Unset})}
  /\ cachedConfig = Null
  /\ call = Call("getConfig", "", <<>>, Undef)
  /\ result = [thrown |-> FALSE, error |-> "", feature |-> "", check |-> "", val |-> Undef]
  /\ reads = 0
  /\ loaded = Undef
  /\ callers = [i \in Callers |-> Entering]

NextRace ==
  \E i \in Callers :
    \/ CheckCache(i)
    \/ ReturnCached(i)
    \/ ReadTransport(i)
    \/ ParseTransport(i)
    \/ StoreParsed(i)
    \/ StoreEmpty(i)

SpecRace == InitRace /\ [][NextRace]_vars

AllReturned == \A i \in Callers : callers[i].pc = "done"

\* C19 (as stated): when all callers have returned, they have returned the
\* same configuration and the slot is populated with it.
C19_RaceEndsPopulated ==
  AllReturned =>
    /\ \A i \in Callers : callers[i].ret = cachedConfig
    /\ Populated(cachedConfig)

\* C19, the race alone: when all callers have returned, each has returned
\* what one getConfig on the empty slot returns, the slot holds that value,
\* and the transport variables were read once per caller at most.
C19_RaceIsBenign ==
  AllReturned =>
    /\ \A i \in Callers : callers[i].ret = getConfig(Null).val
    /\ cachedConfig = getConfig(Null).val
    /\ reads \in 1..MaxCallers

(***************************************************************************)
(* Which violation the validator reports.                                  *)
(***************************************************************************)
\* The place of a check of validateFeatureConfig in the order of the
\* specification: mapping, enabled or onlyForUserIds, boolean enabled,
\* onlyForUserIds a sequence of strings, string comment.
PlaceOf(check) ==
  CASE check = "object" -> 1
    [] check = "either" -> 2
    [] check = "enabled" -> 3
    [] check \in {"array", "strings"} -> 4
    [] check = "comment" -> 5
    [] OTHER -> 0

\* The first check, in that order, that the entry fails; 0 when it fails none.
FirstFailed(entry) ==
  IF ~Mapping(entry) THEN 1
  ELSE IF ~(Has(entry, "enabled") \/ Has(entry, "onlyForUserIds")) THEN 2
  ELSE IF Has(entry, "enabled") /\ Field(entry, "enabled").t # "boolean" THEN 3
  ELSE IF /\ Has(entry, "onlyForUserIds")
          /\ \/ Field(entry, "onlyForUserIds").t # "array"
             \/ \E i \in 1..Len(Field(entry, "onlyForUserIds").items) :
                  Field(entry, "onlyForUserIds").items[i].t # "string"
       THEN 4
  ELSE IF Has(entry, "comment") /\ Field(entry, "comment").t # "string" THEN 5
  ELSE 0

\* The first entry, in the key order of features, that fails a check.
Offending == {i \in 1..Len(EntryNames) : FirstFailed(Entry(EntryNames[i])) # 0}
FirstOffending == EntryNames[CHOOSE i \in Offending : \A j \in Offending : i <= j]

\* C20: of a document with several violations the validator reports one:
\* the first failed check of the first offending entry, naming that entry.
C20_ReportsFirstViolation ==
  (HasEntries /\ Offending # {}) =>
    /\ ValidationError
    /\ result.feature = FirstOffending
    /\ PlaceOf(result.check) = FirstFailed(Entry(FirstOffending))

\* C20, when the first offending entry is not a sequence: the same holds.
C20_HoldsForNonSequences ==
  (HasEntries /\ Offending # {} /\ Entry(FirstOffending).t # "array") =>
    /\ ValidationError
    /\ result.feature = FirstOffending
    /\ PlaceOf(result.check) = FirstFailed(Entry(FirstOffending))

(***************************************************************************)
(* What evaluation depends on.                                             *)
(***************************************************************************)
\* The object without its key k.
Without(o, k) ==
  IF o.t = "object" /\ KeyPos(o, k) # 0
  THEN LET kept == SelectSeq([i \in 1..Len(o.keys) |-> i], LAMBDA i : o.keys[i] # k)
       IN Obj([j \in 1..Len(kept) |-> o.keys[kept[j]]], [j \in 1..Len(kept) |-> o.vals[kept[j]]])
  ELSE o

\* The user with its userId alone, and the configuration with the comment
\* of every rule removed.
OnlyUserId(user) == Without(Without(user, "handle"), "email")

NoComments(config) ==
  IF config.t = "object" /\ KeyPos(config, "features") # 0
  THEN LET features == Get(config, "features").val IN
       CASE features.t = "object" ->
              [config EXCEPT !.vals[KeyPos(config, "features")] =
                 Obj(features.keys,
                     [i \in 1..Len(features.keys) |-> Without(features.vals[i], "comment")])]
         [] features.t = "array" ->
              [config EXCEPT !.vals[KeyPos(config, "features")] =
                 Arr([i \in 1..Len(features.items) |-> Without(features.items[i], "comment")])]
         [] OTHER -> config
  ELSE config

\* C21: isFeatureEnabled and the batch operations return what they return
\* for the user without handle and email on the configuration without
\* comments; so two runs that differ in those alone return the same.
C21_IgnoresHandleEmailComment ==
  LET c == NoComments(cachedConfig)
      u == OnlyUserId(call.user)
  IN /\ call.op = "isFeatureEnabled" =>
          result.val = isFeatureEnabled(c, call.featureName, u).val
     /\ call.op = "isAnyFeatureEnabled" =>
          result.val = isAnyFeatureEnabled(c, call.featureNames, u).val
     /\ call.op = "areAllFeaturesEnabled" =>
          result.val = areAllFeaturesEnabled(c, call.featureNames, u).val
     /\ call.op = "getEnabledFeatures" => result.val = getEnabledFeatures(c, u).val
     /\ call.op = "getFeatureFlags" =>
          result.val = getFeatureFlags(c, call.featureNames, u).val

\* A rule with a comment was evaluated for a user with handle and email.
C21_Witness ==
  /\ call.op = "isFeatureEnabled"
  /\ call.featureName = "a"
  /\ call.user # OnlyUserId(call.user)
  /\ cachedConfig # NoComments(cachedConfig)
  /\ result.val = Bool(TRUE)

(***************************************************************************)
(* The three lookups.                                                      *)
(***************************************************************************)
\* What the three lookups say of a name on the current slot.
Exists(name) == featureExists(cachedConfig, name).val = Bool(TRUE)
Named(name) == Str(name) \in Range(getAllFeatureNames(cachedConfig).val.items)
HasConfig(name) == getFeatureConfig(cachedConfig, name).val # Null

\* C22: after a lookup of a name, featureExists says true exactly when the
\* name is among getAllFeatureNames, and exactly when getFeatureConfig
\* gives something other than null.
C22_LookupsAgree ==
  /\ call.op = "featureExists" =>
       /\ result.val = Bool(Named(call.featureName))
       /\ result.val = Bool(HasConfig(call.featureName))
  /\ call.op = "getFeatureConfig" =>
       /\ (result.val # Null) = Exists(call.featureName)
       /\ (result.val # Null) = Named(call.featureName)

\* C22, for names that objects do not inherit and configurations whose
\* features is a mapping of rules: the same holds.
C22_HoldsForOwnNamesOfRules ==
  (/\ call.featureName \notin ProtoNames
   /\ Mapping(FeaturesOf(cachedConfig))
   /\ \A i \in 1..Len(FeaturesOf(cachedConfig).keys) :
        Truthy(FeaturesOf(cachedConfig).vals[i]))
  => C22_LookupsAgree

(***************************************************************************)
(* What getConfig hands out.                                               *)
(***************************************************************************)
\* A Configuration: a mapping whose features is a mapping of admissible
\* rules.
WellFormed(config) ==
  /\ Mapping(config)
  /\ KeyPos(config, "features") # 0
  /\ Mapping(Get(config, "features").val)
  /\ \A i \in 1..Len(Get(config, "features").val.vals) :
       Admissible(Get(config, "features").val.vals[i])

\* C23: what getConfig returns, and what it leaves in the slot, is a
\* well-formed Configuration (the empty one included), whatever the
\* transport variables hold.
C23_ReturnsWellFormed ==
  call.op = "getConfig" => WellFormed(result.val) /\ WellFormed(cachedConfig)

\* C23, what holds instead: getConfig returns, and leaves in the slot, the
\* empty configuration or whatever the text of the variable parses to.
C23_ReturnsParsedAsIs ==
  call.op = "getConfig" =>
    /\ result.val \in {EmptyConfig, FromVariable(env.FFXL_CONFIG)}
    /\ cachedConfig = result.val

(***************************************************************************)
(* The loader and the config store.                                        *)
(***************************************************************************)
NothingSet == ~host.process \/ (~env.FEATURE_FLAGS_CONFIG.set /\ ~env.FFXL_CONFIG.set)

\* C24: a call of the loader, successful or not, changes neither the slot
\* nor the transport variables; so a getConfig on an empty slot that follows
\* a successful load, with nothing written to the variables, returns the
\* empty configuration.
C24_LoaderLeavesStoreAlone ==
  [][/\ call'.op \in LoaderOps => (cachedConfig' = cachedConfig /\ env' = env)
     /\ (call.op \in LoaderOps /\ ~result.thrown /\ ~Populated(cachedConfig)
         /\ NothingSet /\ call'.op = "getConfig")
        => result'.val = EmptyConfig]_vars

\* A load succeeded while the slot held a configuration read earlier and
\* FFXL_CONFIG held another: both are as they were.
C24_Witness ==
  /\ call.op \in LoaderOps
  /\ ~result.thrown
  /\ loaded = ConfigOn
  /\ cachedConfig = ConfigListed
  /\ env.FFXL_CONFIG = SetTo(JSONstringify(EmptyObj))

====
